---- MODULE Spec2Model ----
(***************************************************************************)
(* Model of the habit consistency engine of the MeWeGo tracker bot         *)
(* (bot/services/streak.py): calculate_daily_streak,                       *)
(* calculate_weekly_streak, get_previous_week, get_next_week and           *)
(* get_habit_stats, and of the handlers and scheduler jobs that write the  *)
(* records and the check-in state of a user (bot/handlers, scheduler.py).  *)
(*                                                                         *)
(* A calendar date is its proleptic Gregorian ordinal (date.toordinal():   *)
(* 0001-01-01 is day 1, a Monday), so date arithmetic is integer           *)
(* arithmetic; a missing log_date (None) is NoDate.  A HabitLog is the     *)
(* record [log_date, status]; LogStatus and ScheduleType values are the    *)
(* strings of the enums.                                                   *)
(***************************************************************************)
EXTENDS Integers, Sequences, FiniteSets, TLC

VARIABLES
    \* one call of get_habit_stats: its arguments, its position, its result
    logs, schedule_type, weekly_target, today, pc, stats,
    \* a chain of get_previous_week / get_next_week calls: the week it
    \* starts from and <<function, result>> of every call made so far
    iso_week, week_path,
    \* the current-streak loop of the call, run one iteration at a time:
    \* check_date or check_week, current_streak, and the dates or weeks
    \* looked up so far
    walk_date, walk_week, walk_streak, visited_dates, visited_weeks,
    \* the bot: the clock (hours, UTC), the row of the user, the table
    \* habit_logs, what the last scheduler job sent to the user, and the
    \* track_habit_callback executions under way
    now, user, habit_logs, sent, handlers

engine_vars == <<logs, schedule_type, weekly_target, today, pc, stats>>

week_vars == <<iso_week, week_path>>

walk_vars ==
    <<walk_date, walk_week, walk_streak, visited_dates, visited_weeks>>

bot_vars == <<now, user, habit_logs, sent, handlers>>

vars == <<engine_vars, week_vars, walk_vars, bot_vars>>

\* ------------------------------------------------------------------------
\* Bounds of the explored inputs
\* ------------------------------------------------------------------------

\* longest log collection handed to the daily engine
MaxLogs == 4

\* the daily log dates are BaseDay .. BaseDay + MaxDay
MaxDay == 3

\* an arbitrary day the daily and window inputs are laid out around
BaseDay == 737000

\* longest log collection handed to the weekly engine
MaxWeekLogs == 4

\* the weekly inputs lie around the new year of FirstYear and of the
\* NumYears - 1 years after it
FirstYear == 2019

NumYears == 4

\* largest weekly target N
MaxTarget == 3

\* longest log collection of the rolling-window inputs
MaxWindowLogs == 3

\* longest log collection of the mixed inputs (both schedule types)
MaxMixedLogs == 3

\* ------------------------------------------------------------------------
\* Data model (bot/models.py)
\* ------------------------------------------------------------------------

NoDate == 0

DONE == "done"

NOT_DONE == "not_done"

SKIPPED == "skipped"

LogStatus == {DONE, NOT_DONE, SKIPPED}

DAILY == "daily"

WEEKLY == "weekly"

\* what dict.get returns for a missing key
None == "none"

HabitLog(d, s) == [log_date |-> d, status |-> s]

HabitStats(cs, bs, d7, d30, td) ==
    [current_streak |-> cs, best_streak |-> bs,
     done_7_days |-> d7, done_30_days |-> d30, total_done |-> td]

Max(a, b) == IF a >= b THEN a ELSE b

\* ------------------------------------------------------------------------
\* calculate_daily_streak
\* ------------------------------------------------------------------------

\* log_by_date after the first n records: a later record of a date
\* overwrites the earlier one, records without a date are left out
RECURSIVE LogByDate(_, _)
LogByDate(ls, n) ==
    IF n = 0 THEN [d \in {} |-> None]
    ELSE LET m == LogByDate(ls, n - 1)
             log == ls[n]
         IN  IF log.log_date # NoDate
             THEN [d \in (DOMAIN m) \cup {log.log_date} |->
                      IF d = log.log_date THEN log.status ELSE m[d]]
             ELSE m

Get(m, d) == IF d \in DOMAIN m THEN m[d] ELSE None

\* CurrentWalk without the exemption of an unmarked today
RECURSIVE CurrentWalkNoToday(_, _, _, _)
CurrentWalkNoToday(m, check_date, td, streak) ==
    LET status == Get(m, check_date)
    IN  IF status = DONE
        THEN CurrentWalkNoToday(m, check_date - 1, td, streak + 1)
        ELSE IF status = SKIPPED
        THEN CurrentWalkNoToday(m, check_date - 1, td, streak)
        ELSE streak

\* CurrentWalk passing a NotDone date like a Skipped one
RECURSIVE CurrentWalkNotDonePasses(_, _, _, _)
CurrentWalkNotDonePasses(m, check_date, td, streak) ==
    LET status == Get(m, check_date)
    IN  IF status = DONE
        THEN CurrentWalkNotDonePasses(m, check_date - 1, td, streak + 1)
        ELSE IF status \in {SKIPPED, NOT_DONE}
        THEN CurrentWalkNotDonePasses(m, check_date - 1, td, streak)
        ELSE IF check_date < td THEN streak
        ELSE CurrentWalkNotDonePasses(m, check_date - 1, td, streak)

\* the `while True` walk from today backwards; yields the final streak
RECURSIVE CurrentWalk(_, _, _, _)
CurrentWalk(m, check_date, td, streak) ==
    LET status == Get(m, check_date)
    IN  IF status = DONE THEN CurrentWalk(m, check_date - 1, td, streak + 1)
        ELSE IF status = SKIPPED THEN CurrentWalk(m, check_date - 1, td, streak)
        ELSE IF status = NOT_DONE THEN streak
        ELSE IF check_date < td THEN streak
        ELSE CurrentWalk(m, check_date - 1, td, streak)

\* DatedLogs without the filter
AllLogs(ls) == ls

\* [l for l in logs if l.log_date]
DatedLogs(ls) == SelectSeq(ls, LAMBDA l : l.log_date # NoDate)

\* insert x into the date-sorted sequence s behind every record whose date
\* is not later (sorted() is stable)
RECURSIVE InsertByDate(_, _)
InsertByDate(s, x) ==
    IF s = <<>> THEN <<x>>
    ELSE IF s[Len(s)].log_date <= x.log_date THEN Append(s, x)
    ELSE Append(InsertByDate(SubSeq(s, 1, Len(s) - 1), x), s[Len(s)])

RECURSIVE SortByDate(_)
SortByDate(s) ==
    IF s = <<>> THEN <<>>
    ELSE InsertByDate(SortByDate(SubSeq(s, 1, Len(s) - 1)), s[Len(s)])

\* SortedLogs without the sort
UnsortedLogs(ls) == DatedLogs(ls)

\* sorted([l for l in logs if l.log_date], key=lambda x: x.log_date)
SortedLogs(ls) == SortByDate(DatedLogs(ls))

\* the inner loop over the dates strictly between prev_date and log_date
GapOk(m, prev_date, log_date) ==
    \A i \in 1 .. (log_date - prev_date - 1) :
        Get(m, prev_date + i) = SKIPPED

\* ScanStep with a further Done record of the same date counted again
ScanStepSameDateCounts(m, st, log) ==
    IF log.status = DONE
    THEN LET streak ==
                 IF st.prev_date = NoDate THEN 1
                 ELSE IF log.log_date = st.prev_date + 1 THEN st.streak + 1
                 ELSE IF log.log_date = st.prev_date THEN st.streak + 1
                 ELSE IF GapOk(m, st.prev_date, log.log_date)
                      THEN st.streak + 1
                      ELSE 1
         IN  [streak |-> streak, prev_date |-> log.log_date,
              best_streak |-> Max(st.best_streak, streak)]
    ELSE IF log.status = SKIPPED
    THEN [st EXCEPT !.prev_date =
              IF st.prev_date # NoDate THEN log.log_date ELSE st.prev_date]
    ELSE [st EXCEPT !.streak = 0, !.prev_date = NoDate]

\* ScanStep with a Skipped record handled like a NotDone one
ScanStepSkipBreaks(m, st, log) ==
    IF log.status = DONE
    THEN LET streak ==
                 IF st.prev_date = NoDate THEN 1
                 ELSE IF log.log_date = st.prev_date + 1 THEN st.streak + 1
                 ELSE IF log.log_date = st.prev_date THEN st.streak
                 ELSE IF GapOk(m, st.prev_date, log.log_date)
                      THEN st.streak + 1
                      ELSE 1
         IN  [streak |-> streak, prev_date |-> log.log_date,
              best_streak |-> Max(st.best_streak, streak)]
    ELSE [st EXCEPT !.streak = 0, !.prev_date = NoDate]

\* ScanStep with a NotDone record handled like a Skipped one
ScanStepNotDoneSkips(m, st, log) ==
    IF log.status = DONE
    THEN LET streak ==
                 IF st.prev_date = NoDate THEN 1
                 ELSE IF log.log_date = st.prev_date + 1 THEN st.streak + 1
                 ELSE IF log.log_date = st.prev_date THEN st.streak
                 ELSE IF GapOk(m, st.prev_date, log.log_date)
                      THEN st.streak + 1
                      ELSE 1
         IN  [streak |-> streak, prev_date |-> log.log_date,
              best_streak |-> Max(st.best_streak, streak)]
    ELSE [st EXCEPT !.prev_date =
              IF st.prev_date # NoDate THEN log.log_date ELSE st.prev_date]

\* one iteration of `for log in sorted_logs`; st is the loop state
\* [streak, prev_date, best_streak], prev_date = NoDate standing for None
ScanStep(m, st, log) ==
    IF log.status = DONE
    THEN LET streak ==
                 IF st.prev_date = NoDate THEN 1
                 ELSE IF log.log_date = st.prev_date + 1 THEN st.streak + 1
                 ELSE IF log.log_date = st.prev_date THEN st.streak
                 ELSE IF GapOk(m, st.prev_date, log.log_date)
                      THEN st.streak + 1
                      ELSE 1
         IN  [streak |-> streak, prev_date |-> log.log_date,
              best_streak |-> Max(st.best_streak, streak)]
    ELSE IF log.status = SKIPPED
    THEN [st EXCEPT !.prev_date =
              IF st.prev_date # NoDate THEN log.log_date ELSE st.prev_date]
    ELSE [st EXCEPT !.streak = 0, !.prev_date = NoDate]

\* the loop state after the first n records of sorted_logs
RECURSIVE BestScan(_, _, _)
BestScan(m, sl, n) ==
    IF n = 0 THEN [streak |-> 0, prev_date |-> NoDate, best_streak |-> 0]
    ELSE ScanStep(m, BestScan(m, sl, n - 1), sl[n])

\* calculate_daily_streak(logs, today) = <<current_streak, best_streak>>
calculate_daily_streak(ls, td) ==
    IF ls = <<>> THEN <<0, 0>>
    ELSE LET log_by_date == LogByDate(ls, Len(ls))
             sorted_logs == SortedLogs(ls)
         IN  <<CurrentWalk(log_by_date, td, td, 0),
               BestScan(log_by_date, sorted_logs, Len(sorted_logs)).best_streak>>

\* ------------------------------------------------------------------------
\* datetime.date: ordinals and the ISO calendar (date.isocalendar())
\* ------------------------------------------------------------------------

\* number of days before January 1st of year y
DaysBeforeYear(y) ==
    LET p == y - 1
    IN  p * 365 + (p \div 4) - (p \div 100) + (p \div 400)

\* date(y, 1, 1) and date(y, 12, 31)
Jan1(y) == DaysBeforeYear(y) + 1

Dec31(y) == DaysBeforeYear(y + 1)

\* the calendar year of a day: the first year, from a lower estimate on,
\* whose December 31st is not before the day
RECURSIVE YearFrom(_, _)
YearFrom(ord, y) == IF Dec31(y) >= ord THEN y ELSE YearFrom(ord, y + 1)

YearOf(ord) == YearFrom(ord, ((ord - 1) \div 366) + 1)

\* date.weekday(): Monday is 0
Weekday(ord) == (ord + 6) % 7

\* the Monday that starts ISO week 1 of a year: the week of January 1st
\* when that is Monday..Thursday, the week after otherwise
IsoWeek1Monday(y) ==
    LET firstday == Jan1(y)
        firstweekday == Weekday(firstday)
        week1monday == firstday - firstweekday
    IN  IF firstweekday > 3 THEN week1monday + 7 ELSE week1monday

\* (d.isocalendar()[0], d.isocalendar()[1])
IsoCalendar(ord) ==
    LET y == YearOf(ord)
        week == (ord - IsoWeek1Monday(y)) \div 7
    IN  IF ord < IsoWeek1Monday(y)
        THEN <<y - 1, ((ord - IsoWeek1Monday(y - 1)) \div 7) + 1>>
        ELSE IF week >= 52 /\ ord >= IsoWeek1Monday(y + 1)
        THEN <<y + 1, 1>>
        ELSE <<y, week + 1>>

\* ------------------------------------------------------------------------
\* calculate_weekly_streak, get_previous_week
\* ------------------------------------------------------------------------

get_previous_week(week) ==
    LET year == week[1]
        week_num == week[2]
    IN  IF week_num = 1
        THEN LET prev_year == year - 1
                 last_day == Dec31(prev_year)
             IN  <<prev_year, IsoCalendar(last_day)[2]>>
        ELSE <<year, week_num - 1>>

get_next_week(week) ==
    LET year == week[1]
        week_num == week[2]
        last_day == Dec31(year)
        max_week == IsoCalendar(last_day)[2]
    IN  IF week_num >= max_week
        THEN <<year + 1, 1>>
        ELSE <<year, week_num + 1>>

\* the dict `weeks` after the first n records: ISO week -> its statuses
RECURSIVE Weeks(_, _)
Weeks(ls, n) ==
    IF n = 0 THEN [k \in {} |-> <<>>]
    ELSE LET w == Weeks(ls, n - 1)
             log == ls[n]
             week_key == IsoCalendar(log.log_date)
         IN  IF log.log_date = NoDate THEN w
             ELSE [k \in (DOMAIN w) \cup {week_key} |->
                      IF k = week_key
                      THEN Append(IF k \in DOMAIN w THEN w[k] ELSE <<>>,
                                  log.status)
                      ELSE w[k]]

\* is_week_success with the comparison off by one
is_week_success_OffByOne(statuses, target) ==
    Cardinality({i \in DOMAIN statuses : statuses[i] = DONE}) >= target - 1

is_week_success(statuses, target) ==
    Cardinality({i \in DOMAIN statuses : statuses[i] = DONE}) >= target

\* tuple comparison of two (year, week) keys
WeekLess(a, b) == a[1] < b[1] \/ (a[1] = b[1] /\ a[2] < b[2])

\* sorted(weeks.keys())
RECURSIVE SortedWeeks(_)
SortedWeeks(keys) ==
    IF keys = {} THEN <<>>
    ELSE LET first == CHOOSE k \in keys : \A o \in keys \ {k} : WeekLess(k, o)
         IN  <<first>> \o SortedWeeks(keys \ {first})

\* `while check_week in weeks` from the current week backwards
RECURSIVE WeekWalk(_, _, _, _)
WeekWalk(w, target, check_week, current_streak) ==
    IF check_week \in DOMAIN w /\ is_week_success(w[check_week], target)
    THEN WeekWalk(w, target, get_previous_week(check_week), current_streak + 1)
    ELSE current_streak

\* the loop state [streak, best_streak] of `for i, week in
\* enumerate(sorted_weeks)` after the first n weeks
RECURSIVE WeekScan(_, _, _, _)
WeekScan(w, target, sw, n) ==
    IF n = 0 THEN [streak |-> 0, best_streak |-> 0]
    ELSE LET st == WeekScan(w, target, sw, n - 1)
             week == sw[n]
         IN  IF is_week_success(w[week], target)
             THEN LET streak ==
                          IF n = 1 THEN 1
                          ELSE IF sw[n - 1] = get_previous_week(week)
                                  /\ is_week_success(w[sw[n - 1]], target)
                               THEN st.streak + 1
                               ELSE 1
                  IN  [streak |-> streak,
                       best_streak |-> Max(st.best_streak, streak)]
             ELSE [st EXCEPT !.streak = 0]

\* calculate_weekly_streak(logs, weekly_target, today)
calculate_weekly_streak(ls, target, td) ==
    IF ls = <<>> THEN <<0, 0>>
    ELSE LET weeks == Weeks(ls, Len(ls))
             sorted_weeks == SortedWeeks(DOMAIN weeks)
         IN  IF sorted_weeks = <<>> THEN <<0, 0>>
             ELSE <<WeekWalk(weeks, target, IsoCalendar(td), 0),
                    WeekScan(weeks, target, sorted_weeks,
                             Len(sorted_weeks)).best_streak>>

\* ------------------------------------------------------------------------
\* get_habit_stats
\* ------------------------------------------------------------------------

\* CountDone with total_done raised for dated records only
RECURSIVE CountDoneDatedOnly(_, _, _)
CountDoneDatedOnly(ls, td, n) ==
    IF n = 0 THEN [done_7_days |-> 0, done_30_days |-> 0, total_done |-> 0]
    ELSE LET c == CountDoneDatedOnly(ls, td, n - 1)
             log == ls[n]
             days_ago == td - log.log_date
         IN  IF log.status # DONE \/ log.log_date = NoDate THEN c
             ELSE [done_7_days |->
                       c.done_7_days + (IF days_ago <= 7 THEN 1 ELSE 0),
                   done_30_days |->
                       c.done_30_days + (IF days_ago <= 30 THEN 1 ELSE 0),
                   total_done |-> c.total_done + 1]

\* CountDone with a missing date taken for today
RECURSIVE CountDoneNullToday(_, _, _)
CountDoneNullToday(ls, td, n) ==
    IF n = 0 THEN [done_7_days |-> 0, done_30_days |-> 0, total_done |-> 0]
    ELSE LET c == CountDoneNullToday(ls, td, n - 1)
             log == ls[n]
             days_ago == IF log.log_date = NoDate THEN 0 ELSE td - log.log_date
         IN  IF log.status # DONE THEN c
             ELSE [done_7_days |->
                       c.done_7_days + (IF days_ago <= 7 THEN 1 ELSE 0),
                   done_30_days |->
                       c.done_30_days + (IF days_ago <= 30 THEN 1 ELSE 0),
                   total_done |-> c.total_done + 1]

\* CountDone with the two window tests exchanged
RECURSIVE CountDoneWindowsSwapped(_, _, _)
CountDoneWindowsSwapped(ls, td, n) ==
    IF n = 0 THEN [done_7_days |-> 0, done_30_days |-> 0, total_done |-> 0]
    ELSE LET c == CountDoneWindowsSwapped(ls, td, n - 1)
             log == ls[n]
             days_ago == td - log.log_date
         IN  IF log.status # DONE THEN c
             ELSE IF log.log_date = NoDate
             THEN [c EXCEPT !.total_done = @ + 1]
             ELSE [done_7_days |->
                       c.done_7_days + (IF days_ago <= 30 THEN 1 ELSE 0),
                   done_30_days |->
                       c.done_30_days + (IF days_ago <= 7 THEN 1 ELSE 0),
                   total_done |-> c.total_done + 1]

\* CountDone with total_done starting at 1
RECURSIVE CountDoneFromOne(_, _, _)
CountDoneFromOne(ls, td, n) ==
    IF n = 0 THEN [done_7_days |-> 0, done_30_days |-> 0, total_done |-> 1]
    ELSE LET c == CountDoneFromOne(ls, td, n - 1)
             log == ls[n]
             days_ago == td - log.log_date
         IN  IF log.status # DONE THEN c
             ELSE IF log.log_date = NoDate
             THEN [c EXCEPT !.total_done = @ + 1]
             ELSE [done_7_days |->
                       c.done_7_days + (IF days_ago <= 7 THEN 1 ELSE 0),
                   done_30_days |->
                       c.done_30_days + (IF days_ago <= 30 THEN 1 ELSE 0),
                   total_done |-> c.total_done + 1]

\* the counters [done_7_days, done_30_days, total_done] of `for log in
\* logs` after the first n records
RECURSIVE CountDone(_, _, _)
CountDone(ls, td, n) ==
    IF n = 0 THEN [done_7_days |-> 0, done_30_days |-> 0, total_done |-> 0]
    ELSE LET c == CountDone(ls, td, n - 1)
             log == ls[n]
             days_ago == td - log.log_date
         IN  IF log.status # DONE THEN c
             ELSE IF log.log_date = NoDate
             THEN [c EXCEPT !.total_done = @ + 1]
             ELSE [done_7_days |->
                       c.done_7_days + (IF days_ago <= 7 THEN 1 ELSE 0),
                   done_30_days |->
                       c.done_30_days + (IF days_ago <= 30 THEN 1 ELSE 0),
                   total_done |-> c.total_done + 1]

get_habit_stats(ls, st, target, td) ==
    LET streaks == IF st = DAILY
                   THEN calculate_daily_streak(ls, td)
                   ELSE calculate_weekly_streak(ls, target, td)
        c == CountDone(ls, td, Len(ls))
    IN  HabitStats(streaks[1], streaks[2],
                   c.done_7_days, c.done_30_days, c.total_done)

\* ------------------------------------------------------------------------
\* Inputs
\* ------------------------------------------------------------------------

Records(dates) == {HabitLog(d, s) : d \in dates, s \in LogStatus}

\* daily inputs: records in any order, several of a date and records
\* without a date allowed
DailyDates == {BaseDay + i : i \in 0 .. MaxDay} \cup {NoDate}

DailyTodays == {BaseDay + MaxDay - 1, BaseDay + MaxDay, BaseDay + MaxDay + 1}

\* weekly inputs around the new year of y: the weeks of January 1st, of the
\* days one week before and after it, and week 1 of the year before
\* (January 4th always lies in week 1)
WeeklyYears == FirstYear .. (FirstYear + NumYears - 1)

WeeklyDates(y) == {Jan1(y) - 7, Jan1(y), Jan1(y) + 7, Jan1(y - 1) + 3}

WeeklyTodays(y) == {Jan1(y), Jan1(y) + 7}

\* habit.logs as the relationship loads them: in insertion order, and
\* handlers insert a record dated with the day of the insertion
DateOrdered(s) ==
    \A i \in 1 .. (Len(s) - 1) : s[i].log_date <= s[i + 1].log_date

\* rolling-window inputs: days around the edges of both windows, a day
\* after today, and records without a date
WindowToday == BaseDay + 40

WindowOffsets == {-1, 0, 6, 7, 29, 30, 31}

WindowDates == {WindowToday - o : o \in WindowOffsets} \cup {NoDate}

\* mixed inputs for both schedule types, around January 1st of FirstYear:
\* two neighbouring days of the week before, the day before and the day
\* itself, and records without a date; with today the day before, the
\* records of January 1st are dated after today
MixedDay == Jan1(FirstYear)

MixedDates == {MixedDay - 8, MixedDay - 7, MixedDay - 1, MixedDay} \cup {NoDate}

MixedTodays == {MixedDay - 1, MixedDay}

NoStats == HabitStats(0, 0, 0, 0, 0)

\* ------------------------------------------------------------------------
\* Exceptions: an operation on a date applied to None
\* ------------------------------------------------------------------------

\* some record of s has no date, so comparing the sort keys, the date
\* arithmetic of the scan, isocalendar() or `today - log_date` raises
NeedsDate(s) == \E i \in DOMAIN s : s[i].log_date = NoDate

\* the records that reach `days_ago = (today - log.log_date).days`
WindowedLogs(ls) ==
    SelectSeq(ls, LAMBDA l : l.status = DONE /\ l.log_date # NoDate)

\* get_habit_stats raises instead of returning: the streak function is
\* entered with a non-empty collection and a record that reaches its date
\* operations has no date, or such a record reaches the window test
Raises(ls) ==
    \/ ls # <<>> /\ NeedsDate(DatedLogs(ls))
    \/ NeedsDate(WindowedLogs(ls))

\* ------------------------------------------------------------------------
\* The parts of the state a specification leaves alone
\* ------------------------------------------------------------------------

NoWeek == <<0, 0>>

NoUser == [id |-> 0]

EngineIdle ==
    /\ logs = <<>>
    /\ schedule_type = DAILY
    /\ weekly_target = 1
    /\ today = NoDate
    /\ pc = "idle"
    /\ stats = NoStats

WeekIdle == iso_week = NoWeek /\ week_path = <<>>

WalkIdle ==
    /\ walk_date = NoDate /\ walk_week = NoWeek
    /\ walk_streak = 0
    /\ visited_dates = <<>> /\ visited_weeks = <<>>

BotIdle ==
    /\ now = 0
    /\ user = NoUser
    /\ habit_logs = <<>>
    /\ sent = "none"
    /\ handlers = <<>>

\* ------------------------------------------------------------------------
\* The call of get_habit_stats (handlers/stats.py, show_statistics)
\* ------------------------------------------------------------------------

\* CallDaily with the records sorted in place (logs.sort(...)) instead of
\* into a new list
CallDailySortsInPlace ==
    /\ pc = "call"
    /\ schedule_type = DAILY
    /\ stats' = get_habit_stats(logs, schedule_type, weekly_target, today)
    /\ pc' = "done"
    /\ logs' = SortByDate(logs)
    /\ UNCHANGED <<schedule_type, weekly_target, today>>
    /\ UNCHANGED <<week_vars, walk_vars, bot_vars>>

CallDaily ==
    /\ pc = "call"
    /\ schedule_type = DAILY
    /\ IF Raises(logs)
       THEN pc' = "error" /\ stats' = stats
       ELSE /\ stats' = get_habit_stats(logs, schedule_type, weekly_target,
                                        today)
            /\ pc' = "done"
    /\ UNCHANGED <<logs, schedule_type, weekly_target, today>>
    /\ UNCHANGED <<week_vars, walk_vars, bot_vars>>

CallWeekly ==
    /\ pc = "call"
    /\ schedule_type = WEEKLY
    /\ IF Raises(logs)
       THEN pc' = "error" /\ stats' = stats
       ELSE /\ stats' = get_habit_stats(logs, schedule_type, weekly_target,
                                        today)
            /\ pc' = "done"
    /\ UNCHANGED <<logs, schedule_type, weekly_target, today>>
    /\ UNCHANGED <<week_vars, walk_vars, bot_vars>>

InitDaily ==
    /\ \E k \in 0 .. MaxLogs : logs \in [1 .. k -> Records(DailyDates)]
    /\ schedule_type = DAILY
    /\ weekly_target = 1
    /\ today \in DailyTodays
    /\ pc = "call"
    /\ stats = NoStats
    /\ WeekIdle /\ WalkIdle /\ BotIdle

InitWeekly ==
    /\ \E y \in WeeklyYears :
          /\ \E k \in 0 .. MaxWeekLogs :
                logs \in [1 .. k -> Records(WeeklyDates(y))]
          /\ DateOrdered(logs)
          /\ today \in WeeklyTodays(y)
    /\ schedule_type = WEEKLY
    /\ weekly_target \in 1 .. MaxTarget
    /\ pc = "call"
    /\ stats = NoStats
    /\ WeekIdle /\ WalkIdle /\ BotIdle

InitWindow ==
    /\ \E k \in 0 .. MaxWindowLogs : logs \in [1 .. k -> Records(WindowDates)]
    /\ schedule_type \in {DAILY, WEEKLY}
    /\ weekly_target = 1
    /\ today = WindowToday
    /\ pc = "call"
    /\ stats = NoStats
    /\ WeekIdle /\ WalkIdle /\ BotIdle

InitMixed ==
    /\ \E k \in 0 .. MaxMixedLogs : logs \in [1 .. k -> Records(MixedDates)]
    /\ schedule_type \in {DAILY, WEEKLY}
    /\ weekly_target \in 1 .. MaxTarget
    /\ today \in MixedTodays
    /\ pc = "call"
    /\ stats = NoStats
    /\ WeekIdle /\ WalkIdle /\ BotIdle

NextDaily == CallDaily

NextWeekly == CallWeekly

NextWindow == CallDaily \/ CallWeekly

NextMixed == CallDaily \/ CallWeekly

SpecMixed == InitMixed /\ [][NextMixed]_vars

\* the mixed inputs together with the weekly ones
InitStreaks == InitMixed \/ InitWeekly

NextStreaks == CallDaily \/ CallWeekly

SpecStreaks == InitStreaks /\ [][NextStreaks]_vars

SpecDaily == InitDaily /\ [][NextDaily]_vars

SpecWeekly == InitWeekly /\ [][NextWeekly]_vars

SpecWindow == InitWindow /\ [][NextWindow]_vars

\* ------------------------------------------------------------------------
\* Chains of get_previous_week and get_next_week calls
\* ------------------------------------------------------------------------

\* longest chain of calls
MaxWeekCalls == 2

\* the number of ISO weeks of a year: the weeks from the Monday of its
\* week 1 to the Monday of week 1 of the next year
WeeksInYear(y) == (IsoWeek1Monday(y + 1) - IsoWeek1Monday(y)) \div 7

\* the ISO weeks that exist, as isocalendar() yields them
IsoWeeks(years) == {k \in years \X (1 .. 53) : k[2] <= WeeksInYear(k[1])}

\* the week the next call is applied to
LastWeek == IF week_path = <<>> THEN iso_week
            ELSE week_path[Len(week_path)][2]

CallPreviousWeek ==
    /\ Len(week_path) < MaxWeekCalls
    /\ week_path' = Append(week_path,
                           <<"previous", get_previous_week(LastWeek)>>)
    /\ UNCHANGED <<iso_week, engine_vars, walk_vars, bot_vars>>

CallNextWeek ==
    /\ Len(week_path) < MaxWeekCalls
    /\ week_path' = Append(week_path, <<"next", get_next_week(LastWeek)>>)
    /\ UNCHANGED <<iso_week, engine_vars, walk_vars, bot_vars>>

InitWeek ==
    /\ iso_week \in IsoWeeks(WeeklyYears)
    /\ week_path = <<>>
    /\ EngineIdle /\ WalkIdle /\ BotIdle

NextWeek == CallPreviousWeek \/ CallNextWeek

SpecWeek == InitWeek /\ [][NextWeek]_vars

\* ------------------------------------------------------------------------
\* The bot: clock, user row, table habit_logs
\* ------------------------------------------------------------------------

\* the clock runs for MaxHours hours
MaxHours == 3

\* the habits a mark can name
MaxHabits == 1

\* track_habit_callback executions that may be under way at once
NumHandlers == 2

Habits == 1 .. MaxHabits

\* Europe/Moscow is UTC+3
MskOffset == 3

\* the length of the day cycle: (day_cycle % 30) + 1
CycleLength == 30

\* the hour of send_missed_day_notifications: time(hour=22, minute=0)
MissedDayHour == 22

\* the clock counts the hours after midnight (UTC) of BaseDay and starts
\* at the hour of send_missed_day_notifications, so that it passes midnight
\* in Moscow (21:00 UTC)
StartHour == MissedDayHour - MskOffset

MaxHour == StartHour + MaxHours

\* None for last_check_in, reminder_time and habit_id
NoCheckIn == -1

NoTime == -1

NoHabit == 0

\* datetime.now(tz).date() at instant t in the zone `offset` hours ahead of
\* UTC; a stored datetime.utcnow() value t has .date() = UtcDate(t)
DateAt(t, offset) == BaseDay + ((t + offset) \div 24)

UtcDate(t) == DateAt(t, 0)

MskDate(t) == DateAt(t, MskOffset)

\* now.strftime("%H:%M") in Moscow, to the hour
MskHour(t) == (t + MskOffset) % 24

get_user_today(timezone) == DateAt(now, timezone)

\* a row of users (the fields the handlers and jobs read or write)
User(dc, lci, re, rt, oc, tz, hs) ==
    [day_cycle |-> dc, last_check_in |-> lci, reminders_enabled |-> re,
     reminder_time |-> rt, onboarding_completed |-> oc, timezone |-> tz,
     habits |-> hs]

\* a row of habit_logs
LogRow(h, d, s, dc) ==
    [habit_id |-> h, log_date |-> d, status |-> s, day_cycle |-> dc]

\* scalar_one_or_none() over the positions a select yields: 0 for None,
\* the position of the only row, Many when it raises MultipleResultsFound
Many == -1

scalar_one_or_none(rows) ==
    IF rows = {} THEN 0
    ELSE IF Cardinality(rows) = 1 THEN CHOOSE i \in rows : TRUE
    ELSE Many

\* select(HabitLog).where(habit_id == habit_id, log_date == today)
FindLog(tbl, habit_id, td) ==
    scalar_one_or_none({i \in DOMAIN tbl :
                           tbl[i].habit_id = habit_id /\ tbl[i].log_date = td})

\* new_day_cycle without the return to 1
new_day_cycle_NoWrap(u) == u.day_cycle + 1

new_day_cycle(u) == (u.day_cycle % CycleLength) + 1

\* TrackLogs adding a record whatever the lookup found
TrackLogsAlwaysAdds(tbl, u, log, habit_id, status, td) ==
    Append(tbl, LogRow(habit_id, td, status, new_day_cycle(u)))

\* habit_logs after the commit of track_habit_callback: u is the user as
\* the handler loaded it, log the result of its lookup
TrackLogs(tbl, u, log, habit_id, status, td) ==
    IF log = 0
    THEN Append(tbl, LogRow(habit_id, td, status, new_day_cycle(u)))
    ELSE [tbl EXCEPT ![log].status = status]

\* the row of the user after that commit (only the changed attributes are
\* written), t being the instant of datetime.utcnow()
TrackUser(row, u, log, status, t) ==
    IF log = 0 /\ status = DONE
    THEN [row EXCEPT !.day_cycle = new_day_cycle(u), !.last_check_in = t]
    ELSE row

\* track_habit_callback run from its first line to its last with no other
\* handler in between (the Application handles one update at a time); a
\* lookup that raises MultipleResultsFound ends the handler
track_habit_callback(habit_id, status) ==
    /\ user # NoUser
    /\ LET td == get_user_today(user.timezone)
           log == FindLog(habit_logs, habit_id, td)
       IN  IF log = Many
           THEN UNCHANGED <<user, habit_logs>>
           ELSE /\ habit_logs' = TrackLogs(habit_logs, user, log, habit_id,
                                           status, td)
                /\ user' = TrackUser(user, user, log, status, now)
    /\ sent' = "none"
    /\ UNCHANGED <<now, handlers, engine_vars, week_vars, walk_vars>>

\* the legacy check-in of a user without habits
handle_check_in ==
    /\ user # NoUser
    /\ user.onboarding_completed
    /\ user.habits = {}
    /\ ~(/\ user.last_check_in # NoCheckIn
         /\ UtcDate(user.last_check_in) = UtcDate(now))
    /\ user' = [user EXCEPT !.day_cycle = new_day_cycle(user),
                            !.last_check_in = now]
    /\ habit_logs' = Append(habit_logs, LogRow(NoHabit, UtcDate(now), DONE,
                                               new_day_cycle(user)))
    /\ sent' = "none"
    /\ UNCHANGED <<now, handlers, engine_vars, week_vars, walk_vars>>

\* the first check-in, a step of the onboarding conversation
first_checkin_callback ==
    /\ user # NoUser
    /\ ~user.onboarding_completed
    /\ user' = [user EXCEPT !.last_check_in = now, !.day_cycle = 1]
    /\ sent' = "none"
    /\ UNCHANGED <<now, habit_logs, handlers, engine_vars, week_vars,
                   walk_vars>>

\* an hour passes
Tick ==
    /\ now < MaxHour
    /\ now' = now + 1
    /\ sent' = "none"
    /\ UNCHANGED <<user, habit_logs, handlers, engine_vars, week_vars,
                   walk_vars>>

\* users as the handlers can meet them when the clock starts: one still in
\* the onboarding conversation, and onboarded ones at any day of the cycle,
\* checked in an hour or a day ago, with or without habits of their own
OnboardingUser == User(1, NoCheckIn, TRUE, NoTime, FALSE, MskOffset, {})

\* the days of the cycle an onboarded user starts at: the last two, from
\* where the cycle starts over within the hours modelled (a user still
\* onboarding starts at day 1)
CycleDays == {CycleLength - 1, CycleLength}

OnboardedUsers ==
    {User(dc, lci, TRUE, NoTime, TRUE, MskOffset, hs) :
        dc \in CycleDays,
        lci \in {StartHour - 24, StartHour - 1},
        hs \in {{}, Habits}}

InitTrack ==
    /\ now = StartHour
    /\ user \in {OnboardingUser} \cup OnboardedUsers
    /\ habit_logs = <<>>
    /\ sent = "none"
    /\ handlers = <<>>
    /\ EngineIdle /\ WeekIdle /\ WalkIdle

NextTrack ==
    \/ \E habit_id \in Habits, status \in LogStatus :
          track_habit_callback(habit_id, status)
    \/ handle_check_in
    \/ first_checkin_callback
    \/ Tick

SpecTrack == InitTrack /\ [][NextTrack]_vars

\* ------------------------------------------------------------------------
\* track_habit_callback executions that interleave at their await points
\* ------------------------------------------------------------------------

\* the locals of an execution: its position, the callback data, the user
\* as loaded, today, and the result of the lookup
Execution(p, habit_id, status, u, td, log) ==
    [pc |-> p, habit_id |-> habit_id, status |-> status, user |-> u,
     today |-> td, log |-> log]

NoExecution == Execution("idle", NoHabit, DONE, NoUser, NoDate, 0)

\* up to `await session.execute(select(User)...)` and get_user_today
TrackLoadUser(p, habit_id, status) ==
    /\ handlers[p].pc = "idle"
    /\ user # NoUser
    /\ handlers' = [handlers EXCEPT ![p] =
                       Execution("lookup", habit_id, status, user,
                                 get_user_today(user.timezone), 0)]
    /\ UNCHANGED <<now, user, habit_logs, sent, engine_vars, week_vars,
                   walk_vars>>

\* `await session.execute(select(HabitLog)...)` and scalar_one_or_none()
TrackLookup(p) ==
    /\ handlers[p].pc = "lookup"
    /\ LET e == handlers[p]
           log == FindLog(habit_logs, e.habit_id, e.today)
       IN  handlers' = [handlers EXCEPT ![p] =
                           [e EXCEPT !.pc = IF log = Many THEN "raised"
                                            ELSE "commit",
                                     !.log = log]]
    /\ UNCHANGED <<now, user, habit_logs, sent, engine_vars, week_vars,
                   walk_vars>>

\* the new record or the changed status, and `await session.commit()`
TrackCommit(p) ==
    /\ handlers[p].pc = "commit"
    /\ LET e == handlers[p]
       IN  /\ habit_logs' = TrackLogs(habit_logs, e.user, e.log, e.habit_id,
                                      e.status, e.today)
           /\ user' = TrackUser(user, e.user, e.log, e.status, now)
           /\ handlers' = [handlers EXCEPT ![p].pc = "done"]
    /\ UNCHANGED <<now, sent, engine_vars, week_vars, walk_vars>>

InitRace ==
    /\ now = StartHour
    /\ user = User(1, StartHour - 24, TRUE, NoTime, TRUE, MskOffset, Habits)
    /\ habit_logs = <<>>
    /\ sent = "none"
    /\ handlers = [p \in 1 .. NumHandlers |-> NoExecution]
    /\ EngineIdle /\ WeekIdle /\ WalkIdle

NextRace ==
    \E p \in 1 .. NumHandlers :
        \/ \E habit_id \in Habits, status \in LogStatus :
              TrackLoadUser(p, habit_id, status)
        \/ TrackLookup(p)
        \/ TrackCommit(p)

SpecRace == InitRace /\ [][NextRace]_vars

\* ------------------------------------------------------------------------
\* Reminder settings (handlers/settings.py) and scheduler jobs
\* ------------------------------------------------------------------------

\* the reminder times a user picks: 23:00 and 00:00, to the hour
ReminderTimes == {23, 0}

disable_reminders_callback ==
    /\ user # NoUser
    /\ user' = [user EXCEPT !.reminders_enabled = FALSE]
    /\ sent' = "none"
    /\ UNCHANGED <<now, habit_logs, handlers, engine_vars, week_vars,
                   walk_vars>>

enable_reminders_callback ==
    /\ user # NoUser
    /\ user' = [user EXCEPT !.reminders_enabled = TRUE]
    /\ sent' = "none"
    /\ UNCHANGED <<now, habit_logs, handlers, engine_vars, week_vars,
                   walk_vars>>

process_reminder_time_callback(time_value) ==
    /\ user # NoUser
    /\ user' = [user EXCEPT !.reminder_time = time_value,
                            !.reminders_enabled = TRUE]
    /\ sent' = "none"
    /\ UNCHANGED <<now, habit_logs, handlers, engine_vars, week_vars,
                   walk_vars>>

\* `if user.last_check_in: ... if last_date == today: continue`
CheckedInToday(u, td) ==
    u.last_check_in # NoCheckIn /\ UtcDate(u.last_check_in) = td

\* the job of every minute: the users selected by onboarding_completed and
\* reminder_time == current time get a reminder unless checked in today
send_reminders ==
    /\ sent' = IF /\ user # NoUser
                  /\ user.onboarding_completed
                  /\ user.reminder_time = MskHour(now)
                  /\ ~CheckedInToday(user, MskDate(now))
               THEN "reminder"
               ELSE "none"
    /\ UNCHANGED <<now, user, habit_logs, handlers, engine_vars, week_vars,
                   walk_vars>>

\* days_missed of send_missed_day_notifications
DaysMissed(u, td) ==
    IF u.last_check_in # NoCheckIn THEN td - UtcDate(u.last_check_in) ELSE 1

\* the job of 22:00 Moscow time
send_missed_day_notifications ==
    /\ MskHour(now) = MissedDayHour
    /\ sent' = IF /\ user # NoUser
                  /\ user.onboarding_completed
                  /\ ~CheckedInToday(user, MskDate(now))
                  /\ ~(/\ DaysMissed(user, MskDate(now)) > 7
                       /\ DaysMissed(user, MskDate(now)) % 3 # 0)
               THEN "missed"
               ELSE "none"
    /\ UNCHANGED <<now, user, habit_logs, handlers, engine_vars, week_vars,
                   walk_vars>>

\* an onboarded user with habits and a reminder time, who checked in
\* yesterday or never
InitReminders ==
    /\ now = StartHour
    /\ user \in {User(1, lci, TRUE, rt, TRUE, MskOffset, Habits) :
                    lci \in {NoCheckIn, StartHour - 24},
                    rt \in ReminderTimes}
    /\ habit_logs = <<>>
    /\ sent = "none"
    /\ handlers = <<>>
    /\ EngineIdle /\ WeekIdle /\ WalkIdle

NextReminders ==
    \/ disable_reminders_callback
    \/ enable_reminders_callback
    \/ \E time_value \in ReminderTimes :
          process_reminder_time_callback(time_value)
    \/ \E habit_id \in Habits, status \in LogStatus :
          track_habit_callback(habit_id, status)
    \/ send_reminders
    \/ send_missed_day_notifications
    \/ Tick

SpecReminders == InitReminders /\ [][NextReminders]_vars

\* ------------------------------------------------------------------------
\* Statistics before and after today's mark
\* ------------------------------------------------------------------------

\* longest log collection before the mark
MaxTodayLogs == 3

\* the day of the mark, and the dates of the records found before it: the
\* days around it and records without a date
MarkDay == BaseDay + 2

MarkDates == ({BaseDay + i : i \in 0 .. (MaxDay + 1)} \ {MarkDay}) \cup {NoDate}

\* the record track_habit_callback adds for a habit without a record of
\* today: HabitLog(log_date=today, status=status), last in habit.logs
MarkToday(status) ==
    /\ pc = "done"
    /\ logs' = Append(logs, HabitLog(today, status))
    /\ pc' = "marked"
    /\ UNCHANGED <<schedule_type, weekly_target, today, stats>>
    /\ UNCHANGED <<week_vars, walk_vars, bot_vars>>

InitToday ==
    /\ \E k \in 0 .. MaxTodayLogs : logs \in [1 .. k -> Records(MarkDates)]
    /\ \A i, j \in DOMAIN logs :
          (logs[i].log_date # NoDate /\ logs[i].log_date = logs[j].log_date)
              => i = j
    /\ schedule_type = DAILY
    /\ weekly_target = 1
    /\ today = MarkDay
    /\ pc = "call"
    /\ stats = NoStats
    /\ WeekIdle /\ WalkIdle /\ BotIdle

NextToday == CallDaily \/ \E status \in LogStatus : MarkToday(status)

SpecToday == InitToday /\ [][NextToday]_vars

\* ------------------------------------------------------------------------
\* The current-streak loops, one iteration at a time
\* ------------------------------------------------------------------------

\* longest log collection the loops are run on
MaxWalkLogs == 1

\* the loops are run around a day in the middle of a year and around
\* January 1st of FirstYear: on the day or the day before, with records of
\* the day, the day before, a week before and the day before that, and
\* records without a date
WalkDays == {BaseDay + 8, MixedDay}

WalkDates(day) == {day - 8, day - 7, day - 1, day} \cup {NoDate}

\* calculate_daily_streak up to the first test of its `while True`
StartDailyWalk ==
    /\ pc = "call"
    /\ schedule_type = DAILY
    /\ IF logs = <<>>
       THEN pc' = "walked" /\ UNCHANGED walk_date
       ELSE pc' = "walk" /\ walk_date' = today
    /\ walk_streak' = 0
    /\ visited_dates' = <<>>
    /\ UNCHANGED <<logs, schedule_type, weekly_target, today, stats>>
    /\ UNCHANGED <<walk_week, visited_weeks, week_vars, bot_vars>>

\* DailyWalkStep passing one more unmarked day before it stops
DailyWalkStepLateStop ==
    /\ pc = "walk"
    /\ schedule_type = DAILY
    /\ LET status == Get(LogByDate(logs, Len(logs)), walk_date)
       IN  /\ visited_dates' = Append(visited_dates, walk_date)
           /\ IF status = DONE
              THEN /\ walk_streak' = walk_streak + 1
                   /\ walk_date' = walk_date - 1
                   /\ pc' = "walk"
              ELSE IF status = SKIPPED
              THEN /\ walk_date' = walk_date - 1
                   /\ UNCHANGED <<walk_streak, pc>>
              ELSE IF status = NOT_DONE
              THEN pc' = "walked" /\ UNCHANGED <<walk_streak, walk_date>>
              ELSE IF walk_date < today - 1
              THEN pc' = "walked" /\ UNCHANGED <<walk_streak, walk_date>>
              ELSE /\ walk_date' = walk_date - 1
                   /\ UNCHANGED <<walk_streak, pc>>
    /\ UNCHANGED <<logs, schedule_type, weekly_target, today, stats>>
    /\ UNCHANGED <<walk_week, visited_weeks, week_vars, bot_vars>>

\* one iteration of `while True`: the lookup of check_date and what
\* follows from the status found
DailyWalkStep ==
    /\ pc = "walk"
    /\ schedule_type = DAILY
    /\ LET status == Get(LogByDate(logs, Len(logs)), walk_date)
       IN  /\ visited_dates' = Append(visited_dates, walk_date)
           /\ IF status = DONE
              THEN /\ walk_streak' = walk_streak + 1
                   /\ walk_date' = walk_date - 1
                   /\ pc' = "walk"
              ELSE IF status = SKIPPED
              THEN /\ walk_date' = walk_date - 1
                   /\ UNCHANGED <<walk_streak, pc>>
              ELSE IF status = NOT_DONE
              THEN pc' = "walked" /\ UNCHANGED <<walk_streak, walk_date>>
              ELSE IF walk_date < today
              THEN pc' = "walked" /\ UNCHANGED <<walk_streak, walk_date>>
              ELSE /\ walk_date' = walk_date - 1
                   /\ UNCHANGED <<walk_streak, pc>>
    /\ UNCHANGED <<logs, schedule_type, weekly_target, today, stats>>
    /\ UNCHANGED <<walk_week, visited_weeks, week_vars, bot_vars>>

\* calculate_weekly_streak up to the first test of `while check_week in
\* weeks`
StartWeeklyWalk ==
    /\ pc = "call"
    /\ schedule_type = WEEKLY
    /\ IF logs = <<>> \/ DOMAIN Weeks(logs, Len(logs)) = {}
       THEN pc' = "walked" /\ UNCHANGED walk_week
       ELSE pc' = "walk" /\ walk_week' = IsoCalendar(today)
    /\ walk_streak' = 0
    /\ visited_weeks' = <<>>
    /\ UNCHANGED <<logs, schedule_type, weekly_target, today, stats>>
    /\ UNCHANGED <<walk_date, visited_dates, week_vars, bot_vars>>

\* one test of `while check_week in weeks` and the body it guards
WeeklyWalkStep ==
    /\ pc = "walk"
    /\ schedule_type = WEEKLY
    /\ LET weeks == Weeks(logs, Len(logs))
       IN  /\ visited_weeks' = Append(visited_weeks, walk_week)
           /\ IF /\ walk_week \in DOMAIN weeks
                 /\ is_week_success(weeks[walk_week], weekly_target)
              THEN /\ walk_streak' = walk_streak + 1
                   /\ walk_week' = get_previous_week(walk_week)
                   /\ pc' = "walk"
              ELSE pc' = "walked" /\ UNCHANGED <<walk_streak, walk_week>>
    /\ UNCHANGED <<logs, schedule_type, weekly_target, today, stats>>
    /\ UNCHANGED <<walk_date, visited_dates, week_vars, bot_vars>>

InitWalk ==
    /\ \E day \in WalkDays :
          /\ \E k \in 0 .. MaxWalkLogs :
                logs \in [1 .. k -> Records(WalkDates(day))]
          /\ today \in {day - 1, day}
    /\ schedule_type \in {DAILY, WEEKLY}
    /\ weekly_target \in 1 .. MaxTarget
    /\ pc = "call"
    /\ stats = NoStats
    /\ WeekIdle /\ WalkIdle /\ BotIdle

NextWalk ==
    \/ StartDailyWalk
    \/ DailyWalkStep
    \/ StartWeeklyWalk
    \/ WeeklyWalkStep

\* the function runs on once called: every iteration that can be taken is
\* taken
SpecWalk == InitWalk /\ [][NextWalk]_vars /\ WF_vars(NextWalk)

TypeOK ==
    /\ pc \in {"idle", "call", "walk", "walked", "done", "marked", "error"}
    /\ stats.current_streak >= 0
    /\ stats.best_streak >= 0

\* ------------------------------------------------------------------------
\* Vocabulary of the properties
\* ------------------------------------------------------------------------

Returned == pc = "done"

\* at most one record per date
OnePerDate(ls) ==
    \A i, j \in DOMAIN ls :
        (ls[i].log_date # NoDate /\ ls[i].log_date = ls[j].log_date) => i = j

DatesOf(ls) == {ls[i].log_date : i \in DOMAIN ls} \ {NoDate}

\* the statuses recorded for a date
StatusesOn(ls, d) == {ls[i].status : i \in {j \in DOMAIN ls : ls[j].log_date = d}}

\* the status of a date when it has at most one record, None without one
StatusOn(ls, d) ==
    IF StatusesOn(ls, d) = {} THEN None ELSE CHOOSE s \in StatusesOn(ls, d) : TRUE

\* the collection holds exactly these records, one each
HoldsExactly(ls, recs) ==
    /\ Len(ls) = Cardinality(recs)
    /\ {ls[i] : i \in DOMAIN ls} = recs

\* the running streak of the best-streak scan after the n-th record of
\* the date-sorted collection, and after the last record of date d
StreakAfter(ls, n) == BestScan(LogByDate(ls, Len(ls)), SortedLogs(ls), n).streak

LastIndexOn(sl, d) ==
    CHOOSE n \in DOMAIN sl :
        sl[n].log_date = d /\ \A k \in DOMAIN sl : sl[k].log_date = d => k <= n

StreakAfterDate(ls, d) == StreakAfter(ls, LastIndexOn(SortedLogs(ls), d))

\* ------------------------------------------------------------------------
\* Daily habits (SpecDaily)
\* ------------------------------------------------------------------------

\* the walk of C1 passes a date: Done or Skipped, or today without a record
WalkPasses(ls, td, d) ==
    \/ StatusOn(ls, d) \in {DONE, SKIPPED}
    \/ StatusOn(ls, d) = None /\ d = td

\* the Done dates the walk of C1 meets: those the walk reaches from today
WalkCount(ls, td) ==
    Cardinality({d \in DatesOf(ls) :
                    /\ d <= td
                    /\ StatusOn(ls, d) = DONE
                    /\ \A e \in (d + 1) .. td : WalkPasses(ls, td, e)})

\* C1: with at most one record per date, currentStreak of a daily habit is
\* the number of Done dates met by the walk back from today that passes
\* Done (counted) and Skipped dates and an unmarked today, and stops at a
\* NotDone date or an unmarked earlier date; so Done on each of the K days
\* ending today, and neither Done nor Skipped on day today-K, gives K.
C1_CurrentStreakIsWalkCount ==
    (Returned /\ schedule_type = DAILY /\ OnePerDate(logs)) =>
        /\ stats.current_streak = WalkCount(logs, today)
        /\ \A K \in 1 .. Len(logs) :
              ( /\ \A j \in 0 .. (K - 1) : StatusOn(logs, today - j) = DONE
                /\ StatusOn(logs, today - K) \notin {DONE, SKIPPED} )
              => stats.current_streak = K

\* C1 witness: today unmarked, Done yesterday, Skipped before it, Done
\* before that and nothing earlier: the walk returned 2
C1_Witness ==
    /\ Returned /\ schedule_type = DAILY
    /\ HoldsExactly(logs, {HabitLog(today - 1, DONE),
                           HabitLog(today - 2, SKIPPED),
                           HabitLog(today - 3, DONE)})
    /\ stats.current_streak = 2

\* C2: with at most one record per date, when some date strictly between a
\* Done date and the Done date before it has no record, the later Done
\* restarts the running best streak at 1, also when other dates of the gap
\* are Skipped; Done on d, nothing on d+1, Skipped on d+2, Done on d+3 and
\* nothing else gives bestStreak = 1.
C2_UnmarkedDayBreaksBridge ==
    (Returned /\ schedule_type = DAILY /\ OnePerDate(logs)) =>
        /\ \A d1, d2 \in DatesOf(logs) :
              ( /\ d1 < d2
                /\ StatusOn(logs, d1) = DONE /\ StatusOn(logs, d2) = DONE
                /\ \A e \in (d1 + 1) .. (d2 - 1) : StatusOn(logs, e) # DONE
                /\ \E e \in (d1 + 1) .. (d2 - 1) : StatusOn(logs, e) = None )
              => StreakAfterDate(logs, d2) = 1
        /\ \A d \in DatesOf(logs) :
              HoldsExactly(logs, {HabitLog(d, DONE), HabitLog(d + 2, SKIPPED),
                                  HabitLog(d + 3, DONE)})
              => stats.best_streak = 1

\* C3: when the records of two dates are Done and every date strictly
\* between them is recorded as Skipped (one day or several), the running
\* best streak after the later date is one more than after the earlier
\* date, and bestStreak is at least that; logs exactly (today-2, Done),
\* (today-1, Skipped), (today, Done) give currentStreak = bestStreak = 2.
C3_SkippedDaysBridge ==
    (Returned /\ schedule_type = DAILY) =>
        /\ \A d1, d2 \in DatesOf(logs) :
              ( /\ d1 + 1 < d2
                /\ StatusesOn(logs, d1) = {DONE}
                /\ StatusesOn(logs, d2) = {DONE}
                /\ \A e \in (d1 + 1) .. (d2 - 1) :
                      StatusesOn(logs, e) = {SKIPPED} )
              => /\ StreakAfterDate(logs, d2) = StreakAfterDate(logs, d1) + 1
                 /\ stats.best_streak >= StreakAfterDate(logs, d2)
        /\ HoldsExactly(logs, {HabitLog(today - 2, DONE),
                               HabitLog(today - 1, SKIPPED),
                               HabitLog(today, DONE)})
           => (stats.current_streak = 2 /\ stats.best_streak = 2)

\* C3 witness: the scenario of the claim has been computed
C3_Witness ==
    /\ Returned /\ schedule_type = DAILY
    /\ HoldsExactly(logs, {HabitLog(today - 2, DONE),
                           HabitLog(today - 1, SKIPPED),
                           HabitLog(today, DONE)})
    /\ stats.best_streak = 2

\* C4: with at most one record per date, the first Done after a NotDone
\* date starts a run of length 1, so Done records on both sides of a
\* NotDone date never share a run; logs exactly (today-3, Done),
\* (today-2, NotDone), (today-1, Done), (today, Done) give
\* currentStreak = 2 and bestStreak = 2.
C4_NotDoneEndsRun ==
    (Returned /\ schedule_type = DAILY /\ OnePerDate(logs)) =>
        /\ \A n, d \in DatesOf(logs) :
              ( /\ n < d
                /\ StatusOn(logs, n) = NOT_DONE
                /\ StatusOn(logs, d) = DONE
                /\ \A e \in (n + 1) .. (d - 1) : StatusOn(logs, e) # DONE )
              => StreakAfterDate(logs, d) = 1
        /\ HoldsExactly(logs, {HabitLog(today - 3, DONE),
                               HabitLog(today - 2, NOT_DONE),
                               HabitLog(today - 1, DONE),
                               HabitLog(today, DONE)})
           => (stats.current_streak = 2 /\ stats.best_streak = 2)

\* C4 witness: the scenario of the claim has been computed
C4_Witness ==
    /\ Returned /\ schedule_type = DAILY
    /\ HoldsExactly(logs, {HabitLog(today - 3, DONE),
                           HabitLog(today - 2, NOT_DONE),
                           HabitLog(today - 1, DONE),
                           HabitLog(today, DONE)})
    /\ stats.best_streak = 2

\* ------------------------------------------------------------------------
\* Weekly habits (SpecWeekly)
\* ------------------------------------------------------------------------

\* ISO weeks run Monday..Sunday and day 1 is a Monday, so the weeks of the
\* calendar are numbered by (d - 1) \div 7 and a week's calendar successor
\* has the next number, across a new year as within a year
WeekIndex(d) == (d - 1) \div 7

WeekIndexesOf(ls) == {WeekIndex(d) : d \in DatesOf(ls)}

DoneInWeek(ls, k) ==
    Cardinality({i \in DOMAIN ls :
                    /\ ls[i].log_date # NoDate
                    /\ WeekIndex(ls[i].log_date) = k
                    /\ ls[i].status = DONE})

\* a week holding at least N Done records (N >= 1, so the week is present)
Successful(ls, N, k) == DoneInWeek(ls, k) >= N

\* the number of consecutive successful weeks back from the week of td
ConsecutiveBack(ls, N, td) ==
    Cardinality({k \in WeekIndexesOf(ls) :
                    /\ k <= WeekIndex(td)
                    /\ \A j \in k .. WeekIndex(td) : Successful(ls, N, j)})

\* the lengths of the runs of calendar-consecutive successful weeks
RunLengths(ls, N) ==
    {k2 - k1 + 1 : <<k1, k2>> \in
        {r \in WeekIndexesOf(ls) \X WeekIndexesOf(ls) :
            r[1] <= r[2] /\ \A j \in r[1] .. r[2] : Successful(ls, N, j)}}

LongestRun(ls, N) ==
    IF RunLengths(ls, N) = {} THEN 0
    ELSE CHOOSE n \in RunLengths(ls, N) : \A o \in RunLengths(ls, N) : o <= n

\* C5: for a weekly habit with target N a week is successful exactly when
\* it holds at least N Done records, and currentStreak is the number of
\* consecutive ISO weeks, back from the week of today, that are each
\* present and successful.
C5_WeeklyCurrentStreak ==
    (Returned /\ schedule_type = WEEKLY) =>
        stats.current_streak = ConsecutiveBack(logs, weekly_target, today)

\* C6: for a weekly habit bestStreak is the length of the longest run of
\* successful weeks that follow each other in the calendar, also across a
\* new year; weeks that are not calendar neighbours never share a run.
C6_WeeklyBestStreak ==
    (Returned /\ schedule_type = WEEKLY) =>
        stats.best_streak = LongestRun(logs, weekly_target)

\* C7: when today lies in ISO week 1 of a year and that week and the week
\* before it (the last ISO week of the year before) are both successful,
\* currentStreak >= 2 and bestStreak >= 2.
C7_StreakSpansNewYear ==
    ( /\ Returned /\ schedule_type = WEEKLY
      /\ IsoCalendar(today)[2] = 1
      /\ Successful(logs, weekly_target, WeekIndex(today))
      /\ Successful(logs, weekly_target, WeekIndex(today) - 1) )
    => (stats.current_streak >= 2 /\ stats.best_streak >= 2)

\* C8: for a weekly habit currentStreak = 0 when the week of today holds
\* fewer than N Done records or no record, and in general no week before
\* the first absent or unsuccessful week counts: currentStreak is at most
\* the number of successful weeks that reach back from today's week
\* without interruption.
C8_WalkStopsAtFirstFailure ==
    (Returned /\ schedule_type = WEEKLY) =>
        /\ ~Successful(logs, weekly_target, WeekIndex(today))
              => stats.current_streak = 0
        /\ stats.current_streak <= ConsecutiveBack(logs, weekly_target, today)

\* ------------------------------------------------------------------------
\* Rolling windows (SpecWindow)
\* ------------------------------------------------------------------------

\* the Done records dated at most `last` days before td and not after it
DoneWithin(ls, td, last) ==
    Cardinality({i \in DOMAIN ls :
                    /\ ls[i].status = DONE
                    /\ ls[i].log_date # NoDate
                    /\ 0 <= td - ls[i].log_date
                    /\ td - ls[i].log_date <= last})

\* C9: done7Days counts exactly the Done records dated 0..6 days before
\* today and done30Days those dated 0..29 days before today; a record of
\* exactly 7 (30) days ago or of a day after today is not counted.
C9_WindowsAreSevenAndThirtyDays ==
    Returned =>
        /\ stats.done_7_days = DoneWithin(logs, today, 6)
        /\ stats.done_30_days = DoneWithin(logs, today, 29)

RemoveAt(ls, i) == SubSeq(ls, 1, i - 1) \o SubSeq(ls, i + 1, Len(ls))

\* the three counts for a collection, as a triple
CountsOf(ls, td) ==
    LET c == CountDone(ls, td, Len(ls))
    IN  <<c.done_7_days, c.done_30_days, c.total_done>>

\* C10: totalDone is the number of records with status Done whatever their
\* date; compared with the collection without it, a Done record without a
\* date raises totalDone by one and leaves done7Days and done30Days as they
\* are, and a Skipped or NotDone record changes none of the three counts.
C10_TotalDoneCountsEveryDone ==
    Returned =>
        /\ stats.total_done =
               Cardinality({i \in DOMAIN logs : logs[i].status = DONE})
        /\ \A i \in DOMAIN logs :
              LET rest == CountsOf(RemoveAt(logs, i), today)
              IN  /\ logs[i].status # DONE =>
                         << stats.done_7_days, stats.done_30_days,
                            stats.total_done >> = rest
                  /\ (logs[i].status = DONE /\ logs[i].log_date = NoDate) =>
                         << stats.done_7_days, stats.done_30_days,
                            stats.total_done >>
                             = <<rest[1], rest[2], rest[3] + 1>>

\* C10 witness: a Done record without a date next to a Done record of
\* today and a Skipped one: total 2, one of them in the windows
C10_Witness ==
    /\ Returned
    /\ HoldsExactly(logs, {HabitLog(NoDate, DONE), HabitLog(today, DONE),
                           HabitLog(today, SKIPPED)})
    /\ stats.total_done = 2
    /\ stats.done_7_days = 1
    /\ stats.done_30_days = 1

\* ------------------------------------------------------------------------
\* Properties of every result
\* ------------------------------------------------------------------------

\* C11: for every input (records without a date, dated after today or
\* sharing a date, either schedule type) the result satisfies
\* 0 <= done7Days <= done30Days <= totalDone, currentStreak >= 0 and
\* bestStreak >= 0.
C11_CountsAreOrdered ==
    Returned =>
        /\ 0 <= stats.done_7_days
        /\ stats.done_7_days <= stats.done_30_days
        /\ stats.done_30_days <= stats.total_done
        /\ stats.current_streak >= 0
        /\ stats.best_streak >= 0

\* C11 witness: the three counts differ: one Done today, one 29 days ago
\* and one without a date
C11_Witness ==
    /\ Returned
    /\ HoldsExactly(logs, {HabitLog(today, DONE), HabitLog(today - 29, DONE),
                           HabitLog(NoDate, DONE)})
    /\ stats.done_7_days = 1
    /\ stats.done_30_days = 2
    /\ stats.total_done = 3

\* C12: for an empty log collection all five fields of the result are 0,
\* for the daily and the weekly schedule, every target and every today.
C12_EmptyLogsGiveZeros ==
    (Returned /\ logs = <<>>) => stats = HabitStats(0, 0, 0, 0, 0)

\* C12 witness: the weekly engine with the largest target has returned
\* for the empty collection
C12_Witness ==
    /\ Returned
    /\ logs = <<>>
    /\ schedule_type = WEEKLY
    /\ weekly_target = MaxTarget
    /\ stats.total_done = 0

\* C13: for a daily habit with at most one record per date
\* bestStreak >= currentStreak.
C13_DailyBestAtLeastCurrent ==
    (Returned /\ schedule_type = DAILY /\ OnePerDate(logs)) =>
        stats.best_streak >= stats.current_streak

\* C13 witness: the current run of two Done days behind a Skipped today is
\* also the best run
C13_Witness ==
    /\ Returned /\ schedule_type = DAILY
    /\ HoldsExactly(logs, {HabitLog(today - 2, DONE), HabitLog(today - 1, DONE),
                           HabitLog(today, SKIPPED)})
    /\ stats.current_streak = 2
    /\ stats.best_streak = 2

\* C14: for a weekly habit with target N >= 1 bestStreak >= currentStreak,
\* also when the weeks lie on both sides of a new year with unsuccessful
\* weeks between the successful ones.
C14_WeeklyBestAtLeastCurrent ==
    (Returned /\ schedule_type = WEEKLY) =>
        stats.best_streak >= stats.current_streak

\* the rearrangements of a collection
Rearrangements(ls) ==
    {[i \in DOMAIN ls |-> ls[p[i]]] : p \in Permutations(DOMAIN ls)}

\* C15: with at most one record per date every rearrangement of the log
\* collection yields the same five fields, for both schedule types.
C15_OrderDoesNotMatter ==
    (Returned /\ OnePerDate(logs)) =>
        \A r \in Rearrangements(logs) :
            get_habit_stats(r, schedule_type, weekly_target, today) = stats

\* C15 witness: two neighbouring Done days handed over latest first
C15_Witness ==
    /\ Returned
    /\ logs = <<HabitLog(today, DONE), HabitLog(today - 1, DONE)>>
    /\ stats.total_done = 2

\* C16: a record without a date, whatever its status, changes neither
\* currentStreak nor bestStreak nor done7Days nor done30Days compared with
\* the collection without it, for both schedule types; a collection of
\* such records only yields currentStreak = bestStreak = 0.
C16_UndatedRecordsAreIgnored ==
    Returned =>
        /\ \A i \in DOMAIN logs :
              logs[i].log_date = NoDate =>
                  LET r == get_habit_stats(RemoveAt(logs, i), schedule_type,
                                           weekly_target, today)
                  IN  /\ stats.current_streak = r.current_streak
                      /\ stats.best_streak = r.best_streak
                      /\ stats.done_7_days = r.done_7_days
                      /\ stats.done_30_days = r.done_30_days
        /\ (\A i \in DOMAIN logs : logs[i].log_date = NoDate) =>
              (stats.current_streak = 0 /\ stats.best_streak = 0)

\* C16 witness: an undated Done record next to a Done record of today
C16_Witness ==
    /\ Returned /\ schedule_type = DAILY
    /\ HoldsExactly(logs, {HabitLog(NoDate, DONE), HabitLog(today, DONE)})
    /\ stats.current_streak = 1
    /\ stats.done_7_days = 1

\* C17: a collection without a Done record yields currentStreak = 0 and
\* bestStreak = 0, for the daily schedule and the weekly one with any
\* target N >= 1.
C17_NoDoneNoStreak ==
    (Returned /\ \A i \in DOMAIN logs : logs[i].status # DONE) =>
        (stats.current_streak = 0 /\ stats.best_streak = 0)

\* C17 witness: a weekly habit with target 1 whose week of today holds
\* Skipped records only
C17_Witness ==
    /\ Returned /\ schedule_type = WEEKLY /\ weekly_target = 1
    /\ HoldsExactly(logs, {HabitLog(today, SKIPPED),
                           HabitLog(today - 1, SKIPPED)})
    /\ stats.best_streak = 0

\* C18 as claimed: for a daily habit whose record of today-1 is NotDone,
\* currentStreak = 0 whatever the other records are.
C18_NotDoneYesterdayGivesZero ==
    ( /\ Returned /\ schedule_type = DAILY
      /\ StatusesOn(logs, today - 1) = {NOT_DONE} )
    => stats.current_streak = 0

\* C18 as amended: for a daily habit whose record of today-1 is NotDone,
\* currentStreak is 1 when today is recorded Done and 0 when today carries
\* no Done record, whatever the earlier records are.
C18_NotDoneYesterdayStopsWalk ==
    ( /\ Returned /\ schedule_type = DAILY
      /\ StatusesOn(logs, today - 1) = {NOT_DONE} )
    => /\ StatusesOn(logs, today) = {DONE} => stats.current_streak = 1
       /\ DONE \notin StatusesOn(logs, today) => stats.current_streak = 0

\* C18 witness: Done today and two days ago around a NotDone yesterday
C18_Witness ==
    /\ Returned /\ schedule_type = DAILY
    /\ HoldsExactly(logs, {HabitLog(today - 2, DONE),
                           HabitLog(today - 1, NOT_DONE),
                           HabitLog(today, DONE)})
    /\ stats.current_streak = 1

\* C19: get_habit_stats never raises: for collections with records without
\* a date, in any order and with several records of a date, either
\* schedule type and any target N >= 1, the call returns a HabitStats of
\* natural numbers.
C19_NeverRaises ==
    /\ pc # "error"
    /\ Returned =>
          /\ DOMAIN stats = {"current_streak", "best_streak", "done_7_days",
                             "done_30_days", "total_done"}
          /\ \A f \in DOMAIN stats : stats[f] \in Nat

\* C19 witness: the call returned for an undated record between two
\* records of the same date
C19_Witness ==
    /\ Returned
    /\ Len(logs) = 3
    /\ logs[1].log_date = today
    /\ logs[2].log_date = NoDate
    /\ logs[3].log_date = today
    /\ logs[1].status # logs[3].status

ArgOf(n) == IF n = 1 THEN iso_week ELSE week_path[n - 1][2]

ResultOf(n) == week_path[n][2]

\* C21: get_previous_week((Y, 1)) = (Y-1, L) with L the number of the last
\* ISO week of ISO year Y-1, which is 52 or 53 and never 1, for every year
\* Y; and get_previous_week((Y, w)) = (Y, w-1) for every w > 1.
C21_PreviousWeekRollsOver ==
    (week_path # <<>> /\ week_path[1][1] = "previous") =>
        LET Y == iso_week[1]
            w == iso_week[2]
        IN  /\ w = 1 => /\ ResultOf(1) = <<Y - 1, WeeksInYear(Y - 1)>>
                        /\ ResultOf(1)[2] \in {52, 53}
            /\ w > 1 => ResultOf(1) = <<Y, w - 1>>

\* C22: get_next_week and get_previous_week are inverse on the ISO weeks
\* that exist: get_next_week(get_previous_week(k)) = k and
\* get_previous_week(get_next_week(k)) = k; get_next_week((Y, w)) is
\* (Y, w+1) when w is not the last ISO week of Y and (Y+1, 1) when it is.
C22_NextAndPreviousAreInverse ==
    /\ (Len(week_path) = 2 /\ week_path[1][1] # week_path[2][1]) =>
           ResultOf(2) = iso_week
    /\ (week_path # <<>> /\ week_path[1][1] = "next") =>
           ResultOf(1) = IF iso_week[2] < WeeksInYear(iso_week[1])
                         THEN <<iso_week[1], iso_week[2] + 1>>
                         ELSE <<iso_week[1] + 1, 1>>

\* ------------------------------------------------------------------------
\* Marking habits (SpecTrack)
\* ------------------------------------------------------------------------

\* the rows of habit_logs for a habit and a date
RowsOf(tbl, habit_id, d) ==
    {i \in DOMAIN tbl : tbl[i].habit_id = habit_id /\ tbl[i].log_date = d}

\* the table but for the status of row i
ButStatus(tbl, i) == [k \in DOMAIN tbl |-> IF k = i THEN "any" ELSE tbl[k]]

\* C23: handlers running one after the other keep at most one HabitLog per
\* (habit_id, log_date): a mark of a habit without a record of today adds
\* one record with the chosen status, a later mark of that habit on that
\* date changes the status of the existing record and adds none, so the
\* stored status is the one chosen last.
C23_OneRecordPerHabitAndDate ==
    /\ [](\A habit_id \in Habits :
             \A i, j \in DOMAIN habit_logs :
                 ( /\ habit_logs[i].habit_id = habit_id
                   /\ habit_logs[j].habit_id = habit_id
                   /\ habit_logs[i].log_date = habit_logs[j].log_date )
                 => i = j)
    /\ [][\A habit_id \in Habits, status \in LogStatus :
             track_habit_callback(habit_id, status) =>
                 LET td == get_user_today(user.timezone)
                     before == RowsOf(habit_logs, habit_id, td)
                     after == RowsOf(habit_logs', habit_id, td)
                 IN  /\ Cardinality(after) = 1
                     /\ \A i \in after : habit_logs'[i].status = status
                     /\ before = {} =>
                            /\ Len(habit_logs') = Len(habit_logs) + 1
                            /\ SubSeq(habit_logs', 1, Len(habit_logs))
                                   = habit_logs
                     /\ before # {} =>
                            /\ after = before
                            /\ Len(habit_logs') = Len(habit_logs)
                            /\ \A i \in before :
                                   ButStatus(habit_logs', i)
                                       = ButStatus(habit_logs, i)]_vars

\* C23 witness: the only record of a user with habits is Done but does not
\* carry the user's day of the cycle: it was added with another status and
\* changed to Done by a later mark
C23_Witness ==
    /\ user # NoUser
    /\ user.onboarding_completed
    /\ user.habits # {}
    /\ Len(habit_logs) = 1
    /\ habit_logs[1].habit_id \in Habits
    /\ habit_logs[1].status = DONE
    /\ habit_logs[1].day_cycle # user.day_cycle

\* the day after day c of the cycle
NextDayOfCycle(c) == IF c < CycleLength THEN c + 1 ELSE 1

C26_DisabledRemindersAreNotSent ==
    [][(user # NoUser /\ ~user.reminders_enabled) => sent' # "reminder"]_vars

\* some habit's record of date td is Done
DoneOn(tbl, td) ==
    \E i \in DOMAIN tbl :
        /\ tbl[i].habit_id \in Habits
        /\ tbl[i].log_date = td
        /\ tbl[i].status = DONE

\* C27: after any track_habit_callback that leaves today's record of a
\* habit Done (by adding it or by changing a NotDone or Skipped record),
\* user.last_check_in is dated today, and while today's record of some habit
\* is Done neither send_reminders nor send_missed_day_notifications sends
\* the user a message.
C27_DoneTodayCountsAsCheckIn ==
    [][/\ \A habit_id \in Habits :
             track_habit_callback(habit_id, DONE) =>
                 ( DoneOn(habit_logs', get_user_today(user.timezone)) =>
                       CheckedInToday(user', get_user_today(user.timezone)) )
       /\ DoneOn(habit_logs, MskDate(now)) => sent' = "none"]_vars

\* ------------------------------------------------------------------------
\* Today's mark (SpecToday)
\* ------------------------------------------------------------------------

\* C25: for a daily habit with at most one record per date and no record
\* of today, recording today as Done makes currentStreak one larger than
\* before, recording it as Skipped leaves currentStreak as it was and
\* recording it as NotDone makes it 0; in all three cases bestStreak does
\* not decrease.
C25_MarkingTodayMovesTheStreak ==
    pc = "marked" =>
        LET after == get_habit_stats(logs, schedule_type, weekly_target, today)
            status == logs[Len(logs)].status
        IN  /\ status = DONE =>
                   after.current_streak = stats.current_streak + 1
            /\ status = SKIPPED =>
                   after.current_streak = stats.current_streak
            /\ status = NOT_DONE => after.current_streak = 0
            /\ after.best_streak >= stats.best_streak

\* ------------------------------------------------------------------------
\* Upper bounds on the streaks (SpecStreaks)
\* ------------------------------------------------------------------------

\* the dates that carry a Done record, and the dated Done records
DoneDates(ls) == {d \in DatesOf(ls) : DONE \in StatusesOn(ls, d)}

DatedDone(ls) ==
    Cardinality({i \in DOMAIN ls :
                    ls[i].status = DONE /\ ls[i].log_date # NoDate})

\* C29: for a daily habit currentStreak and bestStreak are each at most the
\* number of distinct dates that carry a Done record, which is at most
\* totalDone; for a weekly habit with target N >= 1 bestStreak * N and
\* currentStreak * N are each at most the number of dated Done records, and
\* both streaks are at most the number of distinct ISO weeks that hold a
\* record.
C29_StreaksAreSupportedByDoneRecords ==
    Returned =>
        /\ schedule_type = DAILY =>
              /\ stats.current_streak <= Cardinality(DoneDates(logs))
              /\ stats.best_streak <= Cardinality(DoneDates(logs))
              /\ Cardinality(DoneDates(logs)) <= stats.total_done
        /\ schedule_type = WEEKLY =>
              /\ stats.best_streak * weekly_target <= DatedDone(logs)
              /\ stats.current_streak * weekly_target <= DatedDone(logs)
              /\ stats.best_streak <= Cardinality(WeekIndexesOf(logs))
              /\ stats.current_streak <= Cardinality(WeekIndexesOf(logs))

\* C29 witness: a daily habit with two Done records of today and one of
\* yesterday: three Done records, two Done dates, both streaks 2
C29_Witness ==
    /\ Returned /\ schedule_type = DAILY
    /\ Len(logs) = 3
    /\ \A i \in DOMAIN logs : logs[i].status = DONE
    /\ DatesOf(logs) = {today - 1, today}
    /\ stats.total_done = 3
    /\ stats.current_streak = 2
    /\ stats.best_streak = 2

\* ------------------------------------------------------------------------
\* Termination of the walks (SpecWalk)
\* ------------------------------------------------------------------------

\* the least of a non-empty set of dates
Earliest(dates) == CHOOSE d \in dates : \A e \in dates : d <= e

\* the earliest date the daily walk may look up
WalkFloor(ls, td) ==
    IF DatesOf(ls) = {} THEN td - 1
    ELSE IF Earliest(DatesOf(ls)) - 1 <= td - 1
         THEN Earliest(DatesOf(ls)) - 1
         ELSE td - 1

\* the loop results agree with the results of the call
WalkAgrees ==
    pc = "walked" =>
        walk_streak = get_habit_stats(logs, schedule_type, weekly_target,
                                      today).current_streak

====
